---- MODULE Spec2Model ----
(***************************************************************************)
(* A model of scripts/expand_corpus_llm.py: the corpus orchestrator run(), *)
(* the expansion loop expand_level() and the per-item sanitization it does. *)
(*                                                                         *)
(* A Python string is a sequence of characters; a character is one of the  *)
(* tokens of Chars.  The full-width punctuation characters U+3002, U+FF01  *)
(* and U+FF1F are written "fw.", "fw!" and "fw?".  The token " " stands    *)
(* for every character str.strip() removes.                                *)
(***************************************************************************)
EXTENDS Integers, Sequences, FiniteSets, TLC

VARIABLES
    \* ---- run(): the orchestrator ----
    rpc,        \* position in run(): "unit" when expand_level is called on its own
    provider,   \* --provider
    api_key,    \* os.environ.get('OPENAI_API_KEY'): "unset", "empty" or "set"
    langs,      \* --langs, as the set of its members
    target,     \* --target (the target parameter of expand_level)
    per_call0,  \* --per-call (the per_call argument handed to expand_level)
    disk,       \* the corpus files: language -> level -> list of strings
    orig,       \* the corpus files as they were when the run started
    mem,        \* the corpus loaded for the current language (zh / en in run())
    cur,        \* the language being processed
    ti,         \* index in ('easy','medium','hard') of the tier being processed
    loaded,     \* languages whose file load_json has read
    saved,      \* languages whose file save_json has written
    called,     \* <<language, level>> pairs a provider call was issued for
    err,        \* the exception that left expand_level, "none" if none
    \* ---- expand_level(): the expansion loop ----
    epc,        \* "idle", "while" (line 121), "brk" (line 151), "done", "raised"
    level,      \* the level argument
    existing,   \* the existing argument
    items,      \* line 117
    seen,       \* line 118
    per_call,   \* the local per_call, halved at line 148
    batch,      \* line 122: the count the latest request asked for
    new_len,    \* len(new_list) of the latest response (lines 146, 149)
    calls,      \* provider calls of this expansion run, saturating at MaxCalls
    naps,       \* parity of the number of time.sleep(0.6) done (line 143)
    good,       \* every response so far held a string usable as a new item
    result,     \* the returned list (line 153)
    vocab       \* the raw items the provider draws its arrays from

vars == <<rpc, provider, api_key, langs, target, per_call0, disk, orig, mem, cur,
          ti, loaded, saved, called, err, epc, level, existing, items, seen,
          per_call, batch, new_len, calls, naps, good, result, vocab>>

runVars == <<rpc, provider, api_key, langs, target, per_call0, disk, orig, mem,
             cur, ti, loaded, saved>>

----------------------------------------------------------------------------
\* Bounds of the model

MaxTarget == 2      \* target ranges over 0..MaxTarget
MaxPerCall == 2     \* the initial per_call ranges over 1..MaxPerCall
MaxResp == 2        \* a provider array holds at most MaxResp items
MaxLen == 3         \* a raw provider string has at most MaxLen characters
MaxExisting == 2    \* an existing list holds at most MaxExisting items

ScenarioBatch == 10 \* the batch size and deficit of the halving scenario

MaxCalls == MaxTarget + 3   \* calls saturates here: "MaxCalls or more"

Min(a, b) == IF a <= b THEN a ELSE b
Max(a, b) == IF a >= b THEN a ELSE b

----------------------------------------------------------------------------
\* Strings

WS == {" "}

PUNCT_Short == {".", "fw.", "!", "fw!", "?"}
\* the argument of rstrip at line 137
PUNCT == {".", "fw.", "!", "fw!", "?", "fw?"}

\* the characters a raw provider string is made of
Chars == {"a", " ", ".", "fw.", "!", "fw!", "?", "fw?"}

None == <<"None">>          \* a JSON null inside the array

RECURSIVE SeqsUpTo(_, _)
SeqsUpTo(S, n) ==
    IF n = 0 THEN {<<>>}
    ELSE LET shorter == SeqsUpTo(S, n - 1)
         IN  shorter \cup {Append(s, x) : s \in {t \in shorter : Len(t) = n - 1}, x \in S}

RawStrings == SeqsUpTo(Chars, MaxLen)

\* str.rstrip(chars) / str.lstrip(chars)
RECURSIVE RStrip(_, _)
RStrip(s, cs) ==
    IF s # <<>> /\ s[Len(s)] \in cs THEN RStrip(SubSeq(s, 1, Len(s) - 1), cs) ELSE s

RECURSIVE LStrip(_, _)
LStrip(s, cs) ==
    IF s # <<>> /\ s[1] \in cs THEN LStrip(Tail(s), cs) ELSE s

\* line 132: (s or '').strip()
Strip(raw) == LET s == IF raw = None THEN <<>> ELSE raw IN LStrip(RStrip(s, WS), WS)

\* lines 135-137: the string offered to seen, for a raw item that line 133 kept
Clean(s, lv) == IF lv = "easy" THEN RStrip(s, PUNCT) ELSE s

\* lines 132-140: the body of the for loop, on st = [items, seen]
AcceptPrepend(st, raw, lv) ==
    LET s == Strip(raw) IN
    IF s = <<>> THEN st
    ELSE LET c == Clean(s, lv) IN
         IF c \notin st.seen
         THEN [items |-> <<c>> \o st.items, seen |-> st.seen \cup {c}]
         ELSE st

AcceptNoSeen(st, raw, lv) ==
    LET s == Strip(raw) IN
    IF s = <<>> THEN st
    ELSE LET c == Clean(s, lv) IN
         [items |-> Append(st.items, c), seen |-> st.seen \cup {c}]

AcceptForgetSeen(st, raw, lv) ==
    LET s == Strip(raw) IN
    IF s = <<>> THEN st
    ELSE LET c == Clean(s, lv) IN
         IF c \notin st.seen
         THEN [items |-> Append(st.items, c), seen |-> st.seen]
         ELSE st

Accept(st, raw, lv) ==
    LET s == Strip(raw) IN
    IF s = <<>> THEN st
    ELSE LET c == Clean(s, lv) IN
         IF c \notin st.seen
         THEN [items |-> Append(st.items, c), seen |-> st.seen \cup {c}]
         ELSE st

\* lines 131-140: the for loop over new_list
RECURSIVE AcceptAll(_, _, _)
AcceptAll(st, list, lv) ==
    IF list = <<>> THEN st
    ELSE AcceptAll(Accept(st, Head(list), lv), Tail(list), lv)

Range(s) == {s[i] : i \in 1..Len(s)}

----------------------------------------------------------------------------
\* expand_level

Levels == <<"easy", "medium", "hard">>
LevelSet == Range(Levels)

\* what chat_openai does: return a parsed object, or raise
\*   "list":    the object holds an array under the level
\*   "null":    the object holds null or an empty value under the level
\*   "missing": the object has no such key
\*   "http":    requests.post / raise_for_status raises (lines 109-110)
\*   "parse":   r.json() or json.loads raises (lines 111-113)
Outcomes(v) ==
    {[kind |-> "list", list |-> l] : l \in SeqsUpTo(v, MaxResp)}
    \cup {[kind |-> k, list |-> <<>>] : k \in {"null", "missing", "http", "parse"}}

\* line 129: out.get(level, []) or []
NewList(out) == IF out.kind = "list" THEN out.list ELSE <<>>

\* line 122
BatchNoCap(pc, tgt, its) == pc
BatchOfTarget(pc, tgt, its) == Min(pc, tgt)
Batch(pc, tgt, its) == Min(pc, tgt - Len(its))

\* lines 146-148
NextPerCallAnyBatch(pc, b, n) == IF n = 0 THEN pc \div 2 ELSE pc
NextPerCallAnyReply(pc, b, n) == IF b > 1 THEN Max(1, pc \div 2) ELSE pc
NextPerCall(pc, b, n) == IF b > 1 /\ n = 0 THEN Max(1, pc \div 2) ELSE pc

\* lines 149-151
GiveUp(pc, n) == pc = 1 /\ n = 0

\* line 153: items[:target]
ReturnAll(its, tgt) == its
ReturnValue(its, tgt) ==
    IF tgt >= 0 THEN SubSeq(its, 1, Min(tgt, Len(its)))
    ELSE SubSeq(its, 1, Max(0, Len(its) + tgt))

\* lines 131-140 accept at least one non-empty string of new_list
HasUsable(nl, sn, lv) ==
    \E i \in 1..Len(nl) :
        LET s == Strip(nl[i]) IN
        s # <<>> /\ Clean(s, lv) # <<>> /\ Clean(s, lv) \notin sn

\* One iteration of the while loop, lines 121-151.
Iterate ==
    /\ epc = "while"
    /\ Len(items) < target
    /\ IF provider # "openai"
       THEN \* line 127
            /\ epc' = "raised"
            /\ err' = "ValueError"
            /\ batch' = Batch(per_call, target, items)
            /\ UNCHANGED <<items, seen, per_call, new_len, calls, called, naps, good>>
       ELSE \E out \in Outcomes(vocab) :
            /\ batch' = Batch(per_call, target, items)
            /\ calls' = Min(calls + 1, MaxCalls)
            /\ called' = called \cup {<<cur, level>>}
            /\ IF out.kind \in {"http", "parse"}
               THEN /\ epc' = "raised"
                    /\ err' = out.kind
                    /\ good' = FALSE
                    /\ UNCHANGED <<items, seen, per_call, new_len, naps>>
               ELSE LET nl == NewList(out)
                        st == AcceptAll([items |-> items, seen |-> seen], nl, level)
                        pc1 == NextPerCall(per_call, batch', Len(nl))
                    IN  /\ items' = st.items
                        /\ seen' = st.seen
                        /\ per_call' = pc1
                        /\ new_len' = Len(nl)
                        /\ naps' = 1 - naps
                        /\ good' = (good /\ HasUsable(nl, seen, level))
                        /\ epc' = IF GiveUp(pc1, Len(nl)) THEN "brk" ELSE "while"
                        /\ err' = err
    /\ UNCHANGED <<runVars, level, existing, result, vocab>>

\* The loop ends (line 121 false, or the break of line 151) and line 153 returns.
Return ==
    /\ \/ epc = "while" /\ Len(items) >= target
       \/ epc = "brk"
    /\ epc' = "done"
    /\ result' = ReturnValue(items, target)
    /\ UNCHANGED <<runVars, called, err, level, existing, items, seen, per_call,
                   batch, new_len, calls, naps, good, vocab>>

----------------------------------------------------------------------------
\* expand_level called on its own, with arguments drawn from bounded sets

A == <<"a">>
B == <<"b">>

Langs == <<"zh", "en">>
EmptyCorpus == [lv \in LevelSet |-> <<>>]
EmptyDisk == [l \in Range(Langs) |-> EmptyCorpus]

\* the loop's control is varied, the provider's strings are few
ControlVocab == {None, <<" ", "a">>, B, <<".">>}
\* the provider's string is varied
StringVocabs == {{s} : s \in RawStrings}

InitUnit ==
    /\ rpc = "unit" /\ api_key = "set" /\ langs = {}
    /\ per_call0 = per_call
    /\ disk = EmptyDisk /\ orig = EmptyDisk /\ mem = EmptyCorpus
    /\ cur = "zh" /\ ti = 0 /\ loaded = {} /\ saved = {} /\ called = {}
    /\ err = "none"
    /\ epc = "while"
    /\ level \in LevelSet
    /\ items = existing
    /\ seen = Range(existing)
    /\ batch = 0 /\ new_len = 0 /\ calls = 0 /\ result = <<>>
    /\ naps = 0 /\ good = TRUE

InitControl ==
    /\ provider \in {"openai", "other"}
    /\ existing \in SeqsUpTo({A, B}, MaxExisting)
    /\ target \in 0..MaxTarget
    /\ per_call \in 1..MaxPerCall
    /\ vocab \in {ControlVocab, {}}
    /\ InitUnit

InitStrings ==
    /\ provider = "openai"
    /\ existing = <<B>>
    /\ target = MaxTarget
    /\ per_call = 1
    /\ vocab \in StringVocabs
    /\ InitUnit

\* a large batch over a large deficit, with a provider that has nothing to give
InitScenario ==
    /\ provider = "openai"
    /\ existing = <<>>
    /\ target = ScenarioBatch
    /\ per_call = ScenarioBatch
    /\ vocab = {}
    /\ InitUnit

InitExpand == InitControl \/ InitStrings \/ InitScenario

NextExpand == Iterate \/ Return

SpecExpand == InitExpand /\ [][NextExpand]_vars

\* The interpreter runs the next statement, and a provider call ends (timeout=120).
FairExpand == SpecExpand /\ WF_vars(Iterate) /\ WF_vars(Return)
----------------------------------------------------------------------------
\* run(): the orchestrator

\* lines 43-44
NeedNoClamp(its, tgt) == tgt - Len(its)
Need(its, tgt) == Max(0, tgt - Len(its))

\* lines 157-164: the run goes on only with provider 'openai' and a non-empty key
PreflightKeyNotNone(p, k) == p = "openai" /\ k # "unset"
PreflightOk(p, k) == p = "openai" /\ k = "set"

\* the language run() turns to after l; "zh" is handled before "en"
AfterLang(l) == IF l = "zh" THEN "lang" ELSE "returned"

\* lines 157-164
Preflight ==
    /\ rpc = "preflight"
    /\ rpc' = IF PreflightOk(provider, api_key) THEN "lang" ELSE "exit2"
    /\ UNCHANGED <<provider, api_key, langs, target, per_call0, disk, orig, mem, cur,
                   ti, loaded, saved, called, err, epc, level, existing, items,
                   seen, per_call, batch, new_len, calls, naps, good, result, vocab>>

\* lines 166-167 and 175-176: the language is skipped, or its file is loaded
BeginLang ==
    /\ rpc = "lang"
    /\ IF cur \in langs
       THEN /\ mem' = disk[cur]
            /\ loaded' = loaded \cup {cur}
            /\ rpc' = "tier"
            /\ ti' = 1
            /\ cur' = cur
       ELSE /\ rpc' = AfterLang(cur)
            /\ cur' = "en"
            /\ UNCHANGED <<mem, loaded, ti>>
    /\ UNCHANGED <<provider, api_key, langs, target, per_call0, disk, orig, saved,
                   called, err, epc, level, existing, items, seen, per_call, batch,
                   new_len, calls, naps, good, result, vocab>>

\* lines 168-171 and 177-180: the next tier is skipped, or expand_level is entered
\* (lines 116-119)
TierStep ==
    /\ rpc = "tier"
    /\ ti <= Len(Levels)
    /\ IF Need(mem[Levels[ti]], target) # 0
       THEN /\ rpc' = "call"
            /\ epc' = "while"
            /\ level' = Levels[ti]
            /\ existing' = mem[Levels[ti]]
            /\ items' = mem[Levels[ti]]
            /\ seen' = Range(mem[Levels[ti]])
            /\ per_call' = per_call0
            /\ batch' = 0 /\ new_len' = 0 /\ calls' = 0 /\ result' = <<>>
            /\ naps' = 0 /\ good' = TRUE
            /\ ti' = ti
       ELSE /\ ti' = ti + 1
            /\ UNCHANGED <<rpc, epc, level, existing, items, seen, per_call, batch,
                           new_len, calls, naps, good, result>>
    /\ UNCHANGED <<provider, api_key, langs, target, per_call0, disk, orig, mem, cur,
                   loaded, saved, called, err, vocab>>

\* lines 171-172 and 180-181: expand_level has returned, its list is stored
AssignTier ==
    /\ rpc = "call"
    /\ epc = "done"
    /\ mem' = [mem EXCEPT ![level] = result]
    /\ ti' = ti + 1
    /\ rpc' = "tier"
    /\ epc' = "idle"
    /\ UNCHANGED <<provider, api_key, langs, target, per_call0, disk, orig, cur,
                   loaded, saved, called, err, level, existing, items, seen,
                   per_call, batch, new_len, calls, naps, good, result, vocab>>

\* an exception leaves expand_level: nothing in run() or main() catches it
Propagate ==
    /\ rpc = "call"
    /\ epc = "raised"
    /\ rpc' = "crashed"
    /\ UNCHANGED <<provider, api_key, langs, target, per_call0, disk, orig, mem, cur,
                   ti, loaded, saved, called, err, epc, level, existing, items,
                   seen, per_call, batch, new_len, calls, naps, good, result, vocab>>

SaveEachTier ==
    /\ rpc = "tier"
    /\ ti >= 2
    /\ disk' = [disk EXCEPT ![cur] = mem]
    /\ saved' = saved \cup {cur}
    /\ rpc' = IF ti = Len(Levels) + 1 THEN AfterLang(cur) ELSE rpc
    /\ cur' = IF ti = Len(Levels) + 1 THEN "en" ELSE cur
    /\ ti' = ti
    /\ UNCHANGED <<provider, api_key, langs, target, per_call0, orig, mem, loaded,
                   called, err, epc, level, existing, items, seen, per_call, batch,
                   new_len, calls, naps, good, result, vocab>>

\* lines 173 and 182
SaveLang ==
    /\ rpc = "tier"
    /\ ti = Len(Levels) + 1
    /\ disk' = [disk EXCEPT ![cur] = mem]
    /\ saved' = saved \cup {cur}
    /\ rpc' = AfterLang(cur)
    /\ cur' = "en"
    /\ UNCHANGED <<provider, api_key, langs, target, per_call0, orig, mem, ti, loaded,
                   called, err, epc, level, existing, items, seen, per_call, batch,
                   new_len, calls, naps, good, result, vocab>>

\* the corpus files the run may find
Sparse == [easy |-> <<>>, medium |-> <<A>>, hard |-> <<A, B>>]
Full == [lv \in LevelSet |-> <<A, B>>]
CorpusPool == {Sparse, Full}
RunVocab == {<<" ", "a">>, B}

Init ==
    /\ rpc = "preflight"
    /\ provider \in {"openai", "other"}
    /\ api_key \in {"unset", "empty", "set"}
    /\ langs \in SUBSET Range(Langs)
    /\ target \in 0..MaxTarget
    /\ per_call0 \in 1..MaxPerCall
    /\ disk \in [Range(Langs) -> CorpusPool]
    /\ orig = disk
    /\ mem = EmptyCorpus
    /\ cur = "zh" /\ ti = 0 /\ loaded = {} /\ saved = {} /\ called = {}
    /\ err = "none"
    /\ epc = "idle" /\ level = "easy" /\ existing = <<>> /\ items = <<>> /\ seen = {}
    /\ per_call = per_call0
    /\ batch = 0 /\ new_len = 0 /\ calls = 0 /\ result = <<>>
    /\ naps = 0 /\ good = TRUE
    /\ vocab = RunVocab

Next ==
    \/ Preflight
    \/ BeginLang
    \/ TierStep
    \/ Iterate
    \/ Return
    \/ AssignTier
    \/ Propagate
    \/ SaveLang

Spec == Init /\ [][Next]_vars

----------------------------------------------------------------------------
\* Properties of expand_level

NoDup(s) == \A i, j \in 1..Len(s) : i # j => s[i] # s[j]
IsPrefix(p, s) == Len(p) <= Len(s) /\ SubSeq(s, 1, Len(p)) = p
Finished == epc \in {"done", "raised"}
\* the strings this run appended to items
Accepted == {items[i] : i \in (Len(existing) + 1)..Len(items)}

\* C1: every expansion run terminates: whatever well-formed responses the
\* provider gives, the loop makes finitely many calls and then returns.
C1_Terminates == <>Finished

\* C2: the returned list never has more than target items, and a list that
\* reached or passed target is cut to exactly target items.
C2_NeverOvershoots ==
    epc = "done" =>
        /\ Len(result) <= target
        /\ (Len(items) >= target => Len(result) = target)

\* a response pushed items past target and the return cut it back
C2_Witness ==
    /\ epc = "done"
    /\ Len(existing) < target
    /\ Len(items) > target
    /\ Len(result) = target

\* C3 (as claimed): for any existing list and any target the returned list
\* starts with existing_items in their original order.
C3_PrefixAnyTarget == epc = "done" => IsPrefix(existing, result)

\* C3 (amended): when existing has at most target items the returned list
\* starts with existing in its original order; when it has more, the returned
\* list is the first target items of existing.
C3_PrefixWithinTarget ==
    epc = "done" =>
        IF Len(existing) <= target
        THEN IsPrefix(existing, result)
        ELSE result = SubSeq(existing, 1, target)

\* new items were appended behind a non-empty existing list
C3_Witness ==
    /\ epc = "done"
    /\ existing # <<>>
    /\ Len(existing) < target
    /\ Len(result) > Len(existing)

\* C4 (as claimed): the returned list contains no string twice, for any
\* existing list.
C4_NoDupAnyExisting == epc = "done" => NoDup(result)

\* C4 (amended): when existing contains no string twice, the returned list
\* contains no string twice; in every case the strings appended by the run
\* are pairwise different and differ from every existing item.
C4_NoDupFromNoDup ==
    /\ epc = "done" /\ NoDup(existing) => NoDup(result)
    /\ \A i, j \in 1..Len(items) :
           i # j /\ j > Len(existing) => items[i] # items[j]

\* a run over a non-empty existing list accepted two items
C4_Witness ==
    /\ epc = "done"
    /\ existing # <<>>
    /\ NoDup(existing)
    /\ Len(items) >= Len(existing) + 2
    /\ calls >= 2

\* C5: when batch_size is 1 and a request yields no newly accepted item, the
\* loop stops without another request.
C5_ExhaustionStops ==
    [][(/\ epc = "while"
        /\ Len(items) < target
        /\ per_call = 1
        /\ epc' # "raised"
        /\ items' = items) => epc' = "brk"]_vars

\* the six terminal punctuation characters the claims name
TerminalPunct == {".", "fw.", "!", "fw!", "?", "fw?"}

\* C7: no item accepted by an expansion run of the easy tier ends with one of
\* the six terminal punctuation characters.
C7_EasyNoTerminalPunct ==
    level = "easy" =>
        \A s \in Accepted : s = <<>> \/ s[Len(s)] \notin TerminalPunct

\* the easy tier accepted an item the provider sent followed by punctuation
\* and whitespace
C7_Witness ==
    /\ level = "easy"
    /\ \E raw \in vocab :
          /\ raw # None /\ Len(raw) = 3
          /\ raw[1] = "a" /\ raw[2] \in TerminalPunct /\ raw[3] = " "
          /\ <<raw[1]>> \in Accepted

\* C8: no empty string is ever accepted into a tier, neither into seen nor
\* into items.
C8_NoEmptyAccepted == <<>> \notin seen /\ <<>> \notin Accepted
----------------------------------------------------------------------------
\* Properties of run()

RunEnded == rpc \in {"returned", "exit2", "crashed"}

\* C6: for a tier whose count is already equal to or above target, the
\* orchestrator issues no provider call and leaves the tier's list unchanged,
\* in memory and on disk.
C6_DeficitZeroSkip ==
    \A l \in Range(Langs), lv \in LevelSet :
        Len(orig[l][lv]) >= target =>
            /\ <<l, lv>> \notin called
            /\ disk[l][lv] = orig[l][lv]
            /\ (l \in loaded /\ cur = l => mem[lv] = orig[l][lv])

\* a language was processed and saved in which one tier was above target and
\* skipped while another tier was expanded with provider calls
C6_Witness ==
    \E l \in saved, lv, lw \in LevelSet :
        /\ Len(orig[l][lv]) > target
        /\ <<l, lw>> \in called
        /\ disk[l][lw] # orig[l][lw]

\* C9: when the provider is unsupported or the credential is absent, the run
\* stops with an error before any provider call and before any corpus is
\* loaded, changed or saved.
C9_PreflightStops ==
    (provider # "openai" \/ api_key # "set") =>
        /\ rpc \in {"preflight", "exit2"}
        /\ loaded = {} /\ saved = {} /\ called = {}
        /\ disk = orig
        /\ epc = "idle"

\* a run over both languages with the supported provider and no credential
\* has stopped with exit status 2
C9_Witness ==
    /\ rpc = "exit2"
    /\ provider = "openai"
    /\ api_key # "set"
    /\ langs = Range(Langs)

\* C10: a transport/HTTP failure of a provider call during one language's
\* tier loop does not crash the whole run: the run still returns normally, and
\* a requested language that comes later has been loaded by then.
C10_ProviderErrorContained ==
    (err = "http" /\ RunEnded) =>
        /\ rpc = "returned"
        /\ ("en" \in langs => "en" \in loaded)
----------------------------------------------------------------------------
\* Further properties of expand_level and run()

\* C11: a malformed provider response does not abort the expansion run: it
\* counts as a response with no usable item, and the items collected so far
\* are kept and returned.
C11_ParseErrorContained == epc = "raised" => err # "parse"

C13_HalvedOnNothingNew ==
    [][(/\ epc = "while"
        /\ Len(items) < target
        /\ provider = "openai"
        /\ (IF per_call <= target - Len(items) THEN per_call
            ELSE target - Len(items)) > 1
        /\ epc' # "raised"
        /\ items' = items) => per_call' = Max(1, per_call \div 2)]_vars

\* C14: the loop gives up only after a request for a single item came back
\* empty; with batch size 10, deficit 10 and only empty responses that is the
\* fourth request, after requests for 10, 5 and 2 items.
C14_GivesUpAfterSingleRequest ==
    epc = "brk" =>
        /\ batch = 1
        /\ (per_call0 = ScenarioBatch => calls = 4)

\* C15: with a provider that returns an empty array on every call, the run
\* terminates and returns exactly existing_items, for every initial batch
\* size >= 1 and every deficit >= 1.
C15_EmptyProviderTerminates ==
    (vocab = {} /\ Len(existing) < target) =>
        <>(epc = "raised" \/ (epc = "done" /\ result = existing))
\* C16: every provider request asks for exactly min(batch_size, target -
\* len(items)) items, counted at the start of the iteration: at least 1 and at
\* most the remaining deficit.
C16_RequestCount ==
    [][(epc = "while" /\ Len(items) < target /\ provider = "openai") =>
        /\ batch' = (IF per_call <= target - Len(items) THEN per_call
                     ELSE target - Len(items))
        /\ batch' >= 1
        /\ batch' <= target - Len(items)]_vars

\* a request for a single item was made because one item was missing, while
\* the batch size was larger and had not been halved
C16_Witness ==
    /\ calls >= 2
    /\ batch = 1
    /\ per_call = per_call0
    /\ per_call0 > 1
    /\ Len(existing) + 1 < target

\* C17 (as claimed): each time the loop condition is evaluated, len(items) <=
\* target, for any provider responses.
C17_LoopInvariant ==
    (epc = "while" /\ Len(existing) <= target) => Len(items) <= target

\* C17 (amended): each time the loop condition is evaluated, len(items) is at
\* most the larger of len(existing) and target - 1 + the length of the latest
\* response; it is at most target when existing had at most target items and
\* the latest response held no more items than were requested.
C17_LoopBound ==
    epc = "while" =>
        /\ Len(items) <= Max(Len(existing), target - 1 + new_len)
        /\ (Len(existing) <= target /\ new_len <= batch => Len(items) <= target)

\* the loop condition is evaluated after a response that held exactly the
\* requested number of items and filled the tier
C17_Witness ==
    /\ epc = "while"
    /\ calls >= 1
    /\ batch >= 2
    /\ new_len = batch
    /\ Len(items) = target
    /\ Len(existing) < target

\* C18: during an expansion run the batch size never increases and never
\* drops below 1; every change is an integer halving, and an iteration that
\* accepted items or requested a single item leaves it unchanged.
C18_BatchSizeHalvingOnly ==
    [][epc = "while" =>
        /\ per_call' >= 1
        /\ per_call' <= per_call
        /\ (per_call' # per_call =>
               /\ per_call' = Max(1, per_call \div 2)
               /\ items' = items
               /\ batch' > 1)]_vars

\* the batch size of the scenario was halved twice and the loop goes on
C18_Witness ==
    /\ epc = "while"
    /\ per_call0 = ScenarioBatch
    /\ per_call = (ScenarioBatch \div 2) \div 2
    /\ calls = 2

\* C19: every element of items is a member of seen, and seen has as many
\* members as items has distinct elements.
C19_SeenInLockStep ==
    /\ \A i \in 1..Len(items) : items[i] \in seen
    /\ Cardinality(seen) = Cardinality({items[i] : i \in 1..Len(items)})

\* two calls each added an item to seen and to items, behind existing items
C19_Witness ==
    /\ epc = "done"
    /\ existing # <<>>
    /\ calls >= 2
    /\ naps = 0
    /\ Cardinality(seen) = Len(existing) + 2

\* C20: if every provider response holds at least one string that is
\* non-empty and not yet seen after sanitization, a run with len(existing) <
\* target makes at most target - len(existing) provider calls (each call adds
\* an item), never changes the batch size, never gives up and returns exactly
\* target items.
C20_ProductiveRun ==
    (good /\ Len(existing) < target) =>
        /\ calls <= target - Len(existing)
        /\ calls <= Len(items) - Len(existing)
        /\ per_call = per_call0
        /\ epc # "brk"
        /\ (epc = "done" => Len(result) = target)

\* a run that needed two items got one usable string from each of two calls
C20_Witness ==
    /\ good
    /\ epc = "done"
    /\ per_call0 > 1
    /\ calls = 2
    /\ calls = target - Len(existing)

====
